---- MODULE Spec2Model ----
(***************************************************************************)
(* OpenAINode (backend/src/core/nodes/openai/openai.py): the conversation  *)
(* history, the function registry, the pending role/content accumulator    *)
(* and the completion gateway _make_completion with its entry points.      *)
(*                                                                         *)
(* An optional Python value is a sequence of length at most one: None is   *)
(* <<>> and a present value v is <<v>>.  A pydantic Message is a record    *)
(* whose fields are optional values; the dict it serialises to is a        *)
(* function whose domain holds only the keys that are present.  Python     *)
(* strings are TLA+ strings, + is \o.                                      *)
(***************************************************************************)
EXTENDS Integers, Sequences, FiniteSets, TLC

VARIABLES
    history,       \* self.history
    functions,     \* self.functions
    cur_role,      \* self.cur_role
    cur_content,   \* self.cur_content
    pc,            \* "idle", or "create" while openai.ChatCompletion.create runs
    call,          \* the locals of the _make_completion that is waiting, or None
    last,          \* the operation that ended last and what it returned
    registered     \* the definitions the callers passed to add_function, in order

vars == <<history, functions, cur_role, cur_content, pc, call, last, registered>>

-----------------------------------------------------------------------------
(* Bounds of the model. *)

MaxHistory == 3

MaxFunctions == 2

MaxContentLen == 2

TrimBudget == 2

-----------------------------------------------------------------------------
(* Values. *)

None == <<>>

Some(v) == <<v>>

Message(role, content, function_call) ==
    [role |-> role, content |-> content, function_call |-> function_call]

\* Message.dict(exclude_none=True): only the fields that are set, unwrapped.
Dict(msg) == [k \in {f \in DOMAIN msg : msg[f] # None} |-> msg[k][1]]

\* FunctionDefinition.dict(): every field is kept, an absent one as null.
FuncDict(func_def) ==
    [k \in DOMAIN func_def |-> IF func_def[k] = None THEN "null" ELSE func_def[k][1]]

DefaultSystemContent ==
    "You are a helpful AI assistant. You should answer the user's questions and help them with their tasks."

DefaultSystemMessage == Message(Some("system"), Some(DefaultSystemContent), None)

\* The node object: the four fields __init__ sets.
Self ==
    [history |-> history, functions |-> functions,
     cur_role |-> cur_role, cur_content |-> cur_content]

NewNode == [history |-> <<>>, functions |-> <<>>, cur_role |-> None, cur_content |-> None]

-----------------------------------------------------------------------------
(* Inputs drawn by the callers and outcomes of the external collaborators. *)

Roles == {"user"}

Fragments == {"a"}

\* The roles and fragments of the callers of the accumulator specification.
AccumulatorRoles == {"user", "assistant"}

AccumulatorFragments == {"a", "b"}

Texts == {"Hello Sam"}

SystemTexts == {DefaultSystemContent}

\* A template is a sequence of parts: literal text or a replacement field.
Templates == {<<[lit |-> "Hello "], [field |-> "name"]>>}

ParamSets == {[name |-> "Sam"], <<>>}

CallerMessages ==
    {Message(Some("user"), Some("Hello Sam"), None), DefaultSystemMessage}

SingleMessages == {DefaultSystemMessage}

MessageLists ==
    {<<DefaultSystemMessage, Message(Some("user"), Some("Hello Sam"), None)>>}

FunctionDefs == {[name |-> Some("f"), description |-> None]}

\* The definitions registered by the callers of the registry specification.
RegistryFunctionDefs ==
    {[name |-> Some("f"), description |-> None],
     [name |-> Some("g"), description |-> Some("d")]}

Models == {"gpt-3.5-turbo"}

ChatConfigs ==
    [model : Models, append_history : BOOLEAN, use_streaming : BOOLEAN]

\* choices[0] of a non-streaming completion.
ApiChoices ==
    {[message |-> Message(Some("assistant"), Some("ok"), None), finish_reason |-> Some("stop")]}

\* choices[0] of a streamed chunk: the delta carries only the fields that changed.
ApiChunks ==
    {[delta |-> Message(Some("assistant"), Some("ok"), None), finish_reason |-> None],
     [delta |-> Message(None, None, None), finish_reason |-> Some("stop")]}

ApiErrors == {"timeout"}

-----------------------------------------------------------------------------
(* The accumulator-aware append path. *)

\* A test that looks at the content only.
BothSetContentOnly(self) == self.cur_content # None

BothSet(self) == self.cur_role # None /\ self.cur_content # None

\* A flush that starts the history over instead of extending it.
add_single_message_restart(self, msg) ==
    IF BothSet(self)
    THEN [self EXCEPT
            !.history = <<Dict(Message(self.cur_role, self.cur_content, None)), Dict(msg)>>,
            !.cur_role = None,
            !.cur_content = None]
    ELSE [self EXCEPT !.history = Append(@, Dict(msg))]

\* A flush that leaves the accumulator as it was.
add_single_message_keeps_pending(self, msg) ==
    IF BothSet(self)
    THEN [self EXCEPT
            !.history = Append(Append(@, Dict(Message(self.cur_role, self.cur_content, None))),
                               Dict(msg))]
    ELSE [self EXCEPT !.history = Append(@, Dict(msg))]

\* A flush that stores the new message before the pending one.
add_single_message_new_first(self, msg) ==
    IF BothSet(self)
    THEN [self EXCEPT
            !.history = Append(Append(@, Dict(msg)),
                               Dict(Message(self.cur_role, self.cur_content, None))),
            !.cur_role = None,
            !.cur_content = None]
    ELSE [self EXCEPT !.history = Append(@, Dict(msg))]

add_single_message(self, msg) ==
    IF BothSet(self)
    THEN [self EXCEPT
            !.history = Append(Append(@, Dict(Message(self.cur_role, self.cur_content, None))),
                               Dict(msg)),
            !.cur_role = None,
            !.cur_content = None]
    ELSE [self EXCEPT !.history = Append(@, Dict(msg))]

add_system_message(self, content) ==
    add_single_message(self, Message(Some("system"), Some(content), None))

add_role(self, role) ==
    LET flushed == IF BothSet(self)
                   THEN add_single_message(self, Message(self.cur_role, self.cur_content, None))
                   ELSE self
    IN  [flushed EXCEPT !.cur_role = Some(role)]

add_content(self, content) ==
    IF self.cur_content # None
    THEN [self EXCEPT !.cur_content = Some(@[1] \o content)]
    ELSE [self EXCEPT !.cur_content = Some(content)]

\* A registration at the front of the registry.
add_function_front(self, func_def) ==
    [self EXCEPT !.functions = <<FuncDict(func_def)>> \o @]

\* A registry that keeps one copy of each definition.
add_function_unique(self, func_def) ==
    IF \E i \in 1..Len(self.functions) : self.functions[i] = FuncDict(func_def)
    THEN self
    ELSE [self EXCEPT !.functions = Append(@, FuncDict(func_def))]

add_function(self, func_def) ==
    [self EXCEPT !.functions = Append(@, FuncDict(func_def))]

-----------------------------------------------------------------------------
(* The completion gateway. *)

\* A rendering that leaves the name of a replacement field in the text.
RECURSIVE FormatFieldName(_, _)
FormatFieldName(template, params) ==
    IF template = <<>> THEN Some("")
    ELSE LET part == Head(template)
             rest == FormatFieldName(Tail(template), params)
         IN  IF "field" \in DOMAIN part /\ part.field \notin DOMAIN params THEN None
             ELSE IF rest = None THEN None
             ELSE IF "field" \in DOMAIN part THEN Some(part.field \o rest[1])
             ELSE Some(part.lit \o rest[1])

\* str.format(**params) on a template: None stands for the KeyError that a
\* replacement field without a parameter raises.
RECURSIVE Format(_, _)
Format(template, params) ==
    IF template = <<>> THEN Some("")
    ELSE LET part == Head(template)
             rest == Format(Tail(template), params)
         IN  IF "field" \in DOMAIN part /\ part.field \notin DOMAIN params THEN None
             ELSE IF rest = None THEN None
             ELSE IF "field" \in DOMAIN part THEN Some(params[part.field] \o rest[1])
             ELSE Some(part.lit \o rest[1])

\* A window that starts from the history alone, without the default message.
SeedMessagesHistoryOnly(self) == self.history

\* cur_messages before the new messages are added: the default system
\* message when the history is empty, a copy of the history otherwise.
SeedMessages(self) ==
    IF Len(self.history) = 0 THEN <<Dict(DefaultSystemMessage)>> ELSE self.history

\* for message in messages: self.add_single_message(message)
RECURSIVE AppendAll(_, _)
AppendAll(self, messages) ==
    IF messages = <<>> THEN self
    ELSE AppendAll(add_single_message(self, Head(messages)), Tail(messages))

\* A commit that flushes the accumulator even when there is no new message.
CommitMessagesFlushing(self, messages, input) ==
    IF input.append_history
    THEN AppendAll(IF BothSet(self)
                   THEN [self EXCEPT
                           !.history = Append(@, Dict(Message(self.cur_role,
                                                              self.cur_content, None))),
                           !.cur_role = None,
                           !.cur_content = None]
                   ELSE self,
                   messages)
    ELSE self

CommitMessages(self, messages, input) ==
    IF input.append_history THEN AppendAll(self, messages) ELSE self

\* A window seeded from the history once the new messages are stored in it.
CurMessagesAfterCommit(self, messages) ==
    SeedMessages(AppendAll(self, messages)) \o [i \in 1..Len(messages) |-> Dict(messages[i])]

\* cur_messages once every new message is appended to it, before the trim.
CurMessages(self, messages) ==
    SeedMessages(self) \o [i \in 1..Len(messages) |-> Dict(messages[i])]

IsSystem(m) == "role" \in DOMAIN m /\ m.role = "system"

NotSystem(m) == ~IsSystem(m)

LastN(s, n) ==
    IF n <= 0 THEN <<>>
    ELSE IF n >= Len(s) THEN s
    ELSE SubSeq(s, Len(s) - n + 1, Len(s))

\* tt.trim(cur_messages, model): a new list that fits the budget of the model;
\* the newest messages that are not system messages are the ones kept.
Trim(cur_messages, model) ==
    IF Len(cur_messages) <= TrimBudget THEN cur_messages
    ELSE LET system == SelectSeq(cur_messages, IsSystem)
             others == SelectSeq(cur_messages, NotSystem)
         IN  LastN(system, TrimBudget) \o LastN(others, TrimBudget - Len(system))

\* The keyword arguments of openai.ChatCompletion.create.
Kwargs(self, cur_messages, input) ==
    [model |-> input.model, messages |-> Trim(cur_messages, input.model)]
    @@ (IF Len(self.functions) > 0
        THEN [functions |-> self.functions, function_call |-> "auto"]
        ELSE <<>>)
    @@ (IF input.use_streaming THEN [stream |-> TRUE] ELSE <<>>)

\* An error response in the shape of a streaming response.
ErrorRespDelta(e) ==
    [delta |-> Message(Some("system"), Some("Error occurred: " \o e), None)]

\* An error response that reports a normal stop.
ErrorRespStop(e) ==
    [message |-> Message(Some("system"), Some("Error occurred: " \o e), None),
     finish_reason |-> "stop"]

\* The value returned when openai.ChatCompletion.create raises e.
ErrorResp(e) ==
    [message |-> Message(Some("system"), Some("Error occurred: " \o e), None),
     finish_reason |-> "error"]

\* OpenAIStreamingResp(**choice) / OpenAIResp(**choice).
Resp(choice, input) ==
    IF input.use_streaming
    THEN [delta |-> choice.delta]
    ELSE [message |-> choice.message, finish_reason |-> choice.finish_reason[1]]

\* A commit that forgets the streaming branch.
CommitResponseNotStreaming(self, resp, input) ==
    IF input.use_streaming
    THEN self
    ELSE IF input.append_history
         THEN [self EXCEPT !.history = Append(@, Dict(resp.message))]
         ELSE self

\* A commit that does not look at append_history.
CommitResponseAlways(self, resp, input) ==
    IF input.use_streaming
    THEN [self EXCEPT !.history = Append(@, Dict(resp.delta))]
    ELSE [self EXCEPT !.history = Append(@, Dict(resp.message))]

\* The history once the response is committed.
CommitResponse(self, resp, input) ==
    IF input.use_streaming
    THEN IF input.append_history
         THEN [self EXCEPT !.history = Append(@, Dict(resp.delta))]
         ELSE self
    ELSE IF input.append_history
         THEN [self EXCEPT !.history = Append(@, Dict(resp.message))]
         ELSE self

-----------------------------------------------------------------------------
(* State machine. *)

SetSelf(self) ==
    /\ history' = self.history
    /\ functions' = self.functions
    /\ cur_role' = self.cur_role
    /\ cur_content' = self.cur_content

Flush(self) == IF BothSet(self) THEN 1 ELSE 0

Init ==
    /\ history = NewNode.history
    /\ functions = NewNode.functions
    /\ cur_role = NewNode.cur_role
    /\ cur_content = NewNode.cur_content
    /\ pc = "idle"
    /\ call = None
    /\ last = [op |-> "__init__"]
    /\ registered = <<>>

AddSingleMessage(msg) ==
    /\ pc = "idle"
    /\ Len(history) + Flush(Self) + 1 <= MaxHistory
    /\ SetSelf(add_single_message(Self, msg))
    /\ last' = [op |-> "add_single_message", msg |-> msg]
    /\ UNCHANGED <<pc, call, registered>>

AddSystemMessage(content) ==
    /\ pc = "idle"
    /\ Len(history) + Flush(Self) + 1 <= MaxHistory
    /\ SetSelf(add_system_message(Self, content))
    /\ last' = [op |-> "add_system_message", content |-> content]
    /\ UNCHANGED <<pc, call, registered>>

AddRole(role) ==
    /\ pc = "idle"
    /\ Len(history) + 2 * Flush(Self) <= MaxHistory
    /\ SetSelf(add_role(Self, role))
    /\ last' = [op |-> "add_role", role |-> role]
    /\ UNCHANGED <<pc, call, registered>>

AddContent(content) ==
    /\ pc = "idle"
    /\ (IF cur_content = None THEN 0 ELSE Len(cur_content[1])) + Len(content) <= MaxContentLen
    /\ SetSelf(add_content(Self, content))
    /\ last' = [op |-> "add_content", content |-> content]
    /\ UNCHANGED <<pc, call, registered>>

AddFunction(func_def) ==
    /\ pc = "idle"
    /\ Len(functions) < MaxFunctions
    /\ SetSelf(add_function(Self, func_def))
    /\ last' = [op |-> "add_function", func_def |-> func_def]
    /\ registered' = Append(registered, func_def)
    /\ UNCHANGED <<pc, call>>

\* _make_completion up to the point where openai.ChatCompletion.create is
\* entered: the node is left waiting for the outcome of the external call.
MakeCompletion(op, args, messages, input) ==
    /\ pc = "idle"
    /\ Len(history)
         + (IF input.append_history
            THEN (IF messages = <<>> THEN 0 ELSE Flush(Self)) + Len(messages) + 1
            ELSE 0) <= MaxHistory
    /\ LET cur_messages == CurMessages(Self, messages)
           committed == CommitMessages(Self, messages, input)
       IN  /\ SetSelf(committed)
           /\ call' = [op |-> op, args |-> args, messages |-> messages, input |-> input,
                       before |-> Self,
                       cur_messages |-> cur_messages,
                       kwargs |-> Kwargs(committed, cur_messages, input),
                       api_calls |-> 1]
    /\ pc' = "create"
    /\ last' = [op |-> op]
    /\ UNCHANGED registered

Complete(input) == MakeCompletion("complete", <<>>, <<>>, input)

Chat(message_text, input) ==
    MakeCompletion("chat", <<message_text>>,
                   <<Message(Some("user"), Some(message_text), None)>>, input)

ChatWithPromptTemplate(prompt_template, params, input) ==
    LET content == Format(prompt_template, params)
    IN  IF content = None
        THEN /\ pc = "idle"
             /\ last' = [op |-> "chat_with_prompt_template", raised |-> "KeyError"]
             /\ UNCHANGED <<history, functions, cur_role, cur_content, pc, call, registered>>
        ELSE MakeCompletion("chat_with_prompt_template", <<prompt_template, params>>,
                            <<Message(Some("user"), content, None)>>, input)

ChatWithMessage(message, input) ==
    MakeCompletion("chat_with_message", <<message>>, <<message>>, input)

ChatWithMessages(messages, input) ==
    MakeCompletion("chat_with_messages", <<messages>>, messages, input)

\* openai.ChatCompletion.create returns: the first choice is wrapped and,
\* when append_history is set, committed to the history.
CreateReturns(choice) ==
    /\ pc = "create"
    /\ ("delta" \in DOMAIN choice) = call.input.use_streaming
    /\ LET resp == Resp(choice, call.input)
       IN  /\ SetSelf(CommitResponse(Self, resp, call.input))
           /\ last' = [op |-> "_make_completion", input |-> call.input,
                       create |-> [returned |-> choice], returned |-> resp,
                       api_calls |-> call.api_calls]
    /\ pc' = "idle"
    /\ call' = None
    /\ UNCHANGED registered

\* A failure that stores the error response when append_history is set.
CreateRaisesCommits(e) ==
    /\ pc = "create"
    /\ last' = [op |-> "_make_completion", input |-> call.input,
                create |-> [raised |-> e], returned |-> ErrorResp(e),
                api_calls |-> call.api_calls]
    /\ pc' = "idle"
    /\ call' = None
    /\ history' = (IF call.input.append_history
                   THEN Append(history, Dict(ErrorResp(e).message))
                   ELSE history)
    /\ UNCHANGED <<functions, cur_role, cur_content, registered>>

\* openai.ChatCompletion.create raises e.
CreateRaises(e) ==
    /\ pc = "create"
    /\ last' = [op |-> "_make_completion", input |-> call.input,
                create |-> [raised |-> e], returned |-> ErrorResp(e),
                api_calls |-> call.api_calls]
    /\ pc' = "idle"
    /\ call' = None
    /\ UNCHANGED <<history, functions, cur_role, cur_content, registered>>

Next ==
    \/ \E msg \in CallerMessages : AddSingleMessage(msg)
    \/ \E content \in SystemTexts : AddSystemMessage(content)
    \/ \E role \in Roles : AddRole(role)
    \/ \E content \in Fragments : AddContent(content)
    \/ \E func_def \in FunctionDefs : AddFunction(func_def)
    \/ \E input \in ChatConfigs : Complete(input)
    \/ \E text \in Texts, input \in ChatConfigs : Chat(text, input)
    \/ \E t \in Templates, p \in ParamSets, input \in ChatConfigs :
          ChatWithPromptTemplate(t, p, input)
    \/ \E m \in SingleMessages, input \in ChatConfigs : ChatWithMessage(m, input)
    \/ \E ms \in MessageLists, input \in ChatConfigs : ChatWithMessages(ms, input)
    \/ \E choice \in ApiChoices \cup ApiChunks : CreateReturns(choice)
    \/ \E e \in ApiErrors : CreateRaises(e)

Spec == Init /\ [][Next]_vars

\* Callers that register several definitions between completions.
NextRegistry ==
    \/ \E func_def \in RegistryFunctionDefs : AddFunction(func_def)
    \/ \E content \in SystemTexts : AddSystemMessage(content)
    \/ \E input \in ChatConfigs : Complete(input)
    \/ \E text \in Texts, input \in ChatConfigs : Chat(text, input)
    \/ \E choice \in ApiChoices \cup ApiChunks : CreateReturns(choice)
    \/ \E e \in ApiErrors : CreateRaises(e)

SpecRegistry == Init /\ [][NextRegistry]_vars

\* Callers that only use the accumulator-aware append path, with several
\* roles and fragments.
NextAccumulator ==
    \/ \E msg \in CallerMessages : AddSingleMessage(msg)
    \/ \E content \in SystemTexts : AddSystemMessage(content)
    \/ \E role \in AccumulatorRoles : AddRole(role)
    \/ \E content \in AccumulatorFragments : AddContent(content)

SpecAccumulator == Init /\ [][NextAccumulator]_vars

-----------------------------------------------------------------------------
(* Properties. *)

Dicts(messages) == [i \in 1..Len(messages) |-> Dict(messages[i])]

\* The message a complete accumulator holds, as a list of at most one entry.
Pending(self) ==
    IF self.cur_role # None /\ self.cur_content # None
    THEN <<[role |-> self.cur_role[1], content |-> self.cur_content[1]]>>
    ELSE <<>>

ResponseEntry(resp) ==
    IF "delta" \in DOMAIN resp THEN Dict(resp.delta) ELSE Dict(resp.message)

DefaultSeed == [role |-> "system", content |-> DefaultSystemContent]

IsPrefix(s, t) == Len(s) <= Len(t) /\ SubSeq(t, 1, Len(s)) = s

Count(x, s) == Cardinality({i \in 1..Len(s) : s[i] = x})

\* A gateway call that commits a non-empty list of new messages ends.
AppendingCallEnds ==
    /\ pc = "create"
    /\ pc' = "idle"
    /\ call.input.append_history
    /\ call.messages # <<>>

\* C1 as stated: a gateway call with n >= 1 new messages and append_history
\* leaves the history exactly n+1 entries longer: the new messages in order,
\* then the response message.
C1_GrowsByNPlusOne ==
    [][AppendingCallEnds =>
         history' = call.before.history \o Dicts(call.messages)
                       \o <<ResponseEntry(last'.returned)>>]_vars

\* C1 amended: after such a call the history is the history before the call,
\* then the pending message if the accumulator held both a role and a content,
\* then the n new messages in order, then the response if, and only if, the
\* external call succeeded.
C1_GrowsByFlushMessagesResponse ==
    [][AppendingCallEnds =>
         history' = call.before.history \o Pending(call.before) \o Dicts(call.messages)
                       \o (IF "returned" \in DOMAIN last'.create
                           THEN <<ResponseEntry(last'.returned)>>
                           ELSE <<>>)]_vars

C1_Witness ==
    /\ last.op = "_make_completion"
    /\ last.input.append_history
    /\ "returned" \in DOMAIN last.create
    /\ history = <<[role |-> "user", content |-> "a"],
                   [role |-> "user", content |-> "Hello Sam"],
                   [role |-> "assistant", content |-> "ok"]>>

\* C2: an add_role that finds a pending role and content appends that
\* message to the history exactly once.
C2_FlushAppendsOnce ==
    [][(pc = "idle" /\ last'.op = "add_role" /\ Pending(Self) # <<>>) =>
         history' = history \o Pending(Self)]_vars

\* C3: when the external call raises e the gateway has called the API once,
\* raises nothing and returns role "system", content "Error occurred: " + e
\* and finish_reason "error".
C3_FailureIsReturned ==
    (last.op = "_make_completion" /\ "raised" \in DOMAIN last.create) =>
        /\ pc = "idle"
        /\ last.api_calls = 1
        /\ "raised" \notin DOMAIN last
        /\ last.returned =
             [message |-> [role |-> <<"system">>,
                           content |-> <<"Error occurred: " \o last.create.raised>>,
                           function_call |-> <<>>],
              finish_reason |-> "error"]

C3_Witness ==
    /\ last.op = "_make_completion"
    /\ last.create = [raised |-> "timeout"]
    /\ last.input.use_streaming
    /\ last.returned.finish_reason = "error"

\* The step appends a message equal to the default one on the caller's word.
CallerAppendsSeed ==
    \/ last'.op = "add_single_message" /\ pc = "idle" /\ Dict(last'.msg) = DefaultSeed
    \/ last'.op = "add_system_message" /\ pc = "idle"
         /\ last'.content = DefaultSystemContent
    \/ /\ pc = "idle"
       /\ pc' = "create"
       /\ call'.input.append_history
       /\ \E i \in 1..Len(call'.messages) : Dict(call'.messages[i]) = DefaultSeed

\* C4: a gateway call made on an empty history sends a window that begins
\* with the default system message, and the history gains an entry equal to
\* that message only in a step where the caller appends one.
C4_SeedSentNeverStored ==
    [][/\ (pc = "idle" /\ pc' = "create" /\ history = <<>>) =>
             call'.cur_messages # <<>> /\ Head(call'.cur_messages) = DefaultSeed
       /\ Count(DefaultSeed, history') > Count(DefaultSeed, history) =>
             CallerAppendsSeed]_vars

C4_Witness ==
    /\ pc = "create"
    /\ call.before.history = <<>>
    /\ call.input.append_history
    /\ Head(call.cur_messages) = DefaultSeed
    /\ history = <<[role |-> "user", content |-> "Hello Sam"]>>

\* C5: the request of a gateway call carries the N registered definitions in
\* registration order with function_call "auto" when N > 0, and neither
\* field when N = 0.
C5_RequestCarriesRegistry ==
    pc = "create" =>
        IF Len(registered) > 0
        THEN /\ "functions" \in DOMAIN call.kwargs
             /\ call.kwargs.functions =
                  [i \in 1..Len(registered) |-> FuncDict(registered[i])]
             /\ "function_call" \in DOMAIN call.kwargs
             /\ call.kwargs.function_call = "auto"
        ELSE /\ "functions" \notin DOMAIN call.kwargs
             /\ "function_call" \notin DOMAIN call.kwargs

C5_Witness ==
    /\ pc = "create"
    /\ Len(registered) = 2
    /\ registered[1] # registered[2]
    /\ call.kwargs.functions = <<FuncDict(registered[1]), FuncDict(registered[2])>>
    /\ call.kwargs.function_call = "auto"
    /\ history # <<>>

\* The content chat and chat_with_prompt_template are asked to send.
AskedText(c) ==
    IF c.op = "chat" THEN c.args[1]
    ELSE IF c.args[1] = <<[lit |-> "Hello "], [field |-> "name"]>>
         THEN "Hello " \o c.args[2].name
         ELSE ""

\* C6: chat and chat_with_prompt_template send the window of the history
\* before the call (or the default message) followed by one user message
\* holding the text, resp. the rendered template, whatever append_history is.
C6_OneUserMessageLast ==
    (pc = "create" /\ call.op \in {"chat", "chat_with_prompt_template"}) =>
        /\ Len(call.messages) = 1
        /\ call.cur_messages =
             (IF call.before.history = <<>> THEN <<DefaultSeed>> ELSE call.before.history)
                \o <<[role |-> "user", content |-> AskedText(call)]>>

C6_Witness ==
    /\ pc = "create"
    /\ call.op = "chat_with_prompt_template"
    /\ call.args = <<<<[lit |-> "Hello "], [field |-> "name"]>>, [name |-> "Sam"]>>
    /\ call.input.append_history
    /\ Pending(call.before) # <<>>
    /\ Len(history) = Len(call.before.history) + 2
    /\ Len(call.cur_messages) = 2
    /\ call.cur_messages[2] = [role |-> "user", content |-> "Hello Sam"]

\* C7: no entry of the history lacks both role and content.
C7_NoEmptyEntry ==
    \A i \in 1..Len(history) :
        "role" \in DOMAIN history[i] \/ "content" \in DOMAIN history[i]

\* C8: the history before a step is a prefix of the history after it.
C8_AppendOnly == [][IsPrefix(history, history')]_vars

C8_Witness ==
    /\ last.op = "add_role"
    /\ Len(history) >= 3
    /\ cur_content = None

\* C9: a gateway call with append_history false leaves the history, the
\* registry and the accumulator as they were, when the call is sent and when
\* it ends, by a return or by a failure.
C9_NoAppendNoChange ==
    [][/\ (pc = "idle" /\ pc' = "create" /\ ~call'.input.append_history) =>
             /\ history' = history
             /\ functions' = functions
             /\ cur_role' = cur_role
             /\ cur_content' = cur_content
       /\ (pc = "create" /\ pc' = "idle" /\ ~call.input.append_history) =>
             /\ history' = call.before.history
             /\ functions' = call.before.functions
             /\ cur_role' = call.before.cur_role
             /\ cur_content' = call.before.cur_content]_vars

C9_Witness ==
    /\ last.op = "_make_completion"
    /\ ~last.input.append_history
    /\ last.input.use_streaming
    /\ "returned" \in DOMAIN last.create
    /\ Len(history) >= 3
    /\ functions # <<>>
    /\ Pending(Self) # <<>>

\* C10: after add_role(r) the pending role is r and the pending content is
\* absent.
C10_RoleSetContentCleared ==
    [][(pc = "idle" /\ last'.op = "add_role") =>
         cur_role' = <<last'.role>> /\ cur_content' = None]_vars

\* The entry a direct append is asked to store.
DirectEntry(l) ==
    IF l.op = "add_single_message" THEN Dict(l.msg)
    ELSE [role |-> "system", content |-> l.content]

DirectAppend ==
    pc = "idle" /\ last'.op \in {"add_single_message", "add_system_message"}

\* C11: a direct append of m stores the pending message and then m when the
\* accumulator holds both a role and a content; otherwise it stores m alone
\* and leaves the accumulator as it was.
C11_DirectAppendFlushesFirst ==
    [][DirectAppend =>
         /\ history' = history \o Pending(Self) \o <<DirectEntry(last')>>
         /\ Pending(Self) = <<>> => cur_role' = cur_role /\ cur_content' = cur_content]_vars

C11_Witness ==
    /\ last.op = "add_single_message"
    /\ history = <<[role |-> "system", content |-> DefaultSystemContent],
                   [role |-> "assistant", content |-> "ab"],
                   [role |-> "user", content |-> "Hello Sam"]>>
    /\ cur_role = None
    /\ cur_content = None

\* An operation stores the message the accumulator holds.
FlushStep ==
    /\ pc = "idle"
    /\ Pending(Self) # <<>>
    /\ history' # history

\* C12: an operation that flushes the accumulator leaves no pending pair
\* behind: the content is absent afterwards, and the role is absent unless
\* the operation is add_role, which then sets the role it was given; a later
\* operation therefore finds nothing of the flushed pair to flush again.
C12_FlushResetsAccumulator ==
    [][FlushStep =>
         /\ IsPrefix(history \o Pending(Self), history')
         /\ cur_content' = None
         /\ cur_role' = (IF last'.op = "add_role" THEN Some(last'.role) ELSE None)
         /\ Pending(Self)' = <<>>]_vars

C12_Witness ==
    /\ pc = "create"
    /\ call.input.append_history
    /\ Pending(call.before) = <<[role |-> "user", content |-> "a"]>>
    /\ history = call.before.history \o Pending(call.before) \o Dicts(call.messages)
    /\ cur_role = None
    /\ cur_content = None

\* The entries an operation that starts now is asked to store.
OwnEntries ==
    IF last'.op \in {"add_single_message", "add_system_message"}
    THEN <<DirectEntry(last')>>
    ELSE IF pc' = "create" /\ call'.input.append_history
         THEN Dicts(call'.messages)
         ELSE <<>>

\* C13: an operation that starts while the accumulator lacks its role or
\* its content stores only the messages it was given: nothing built from the
\* accumulator enters the history, and the accumulator's fields are changed
\* by add_role and add_content alone.
C13_IncompleteAccumulatorNotFlushed ==
    [][(pc = "idle" /\ Pending(Self) = <<>>) =>
         /\ history' = history \o OwnEntries
         /\ last'.op \notin {"add_role", "add_content"} =>
               cur_role' = cur_role /\ cur_content' = cur_content]_vars

C13_Witness ==
    /\ pc = "create"
    /\ call.input.append_history
    /\ call.messages # <<>>
    /\ call.before.cur_role = None
    /\ call.before.cur_content = Some("a")
    /\ history = call.before.history \o Dicts(call.messages)
    /\ cur_content = Some("a")

\* The untrimmed window of the call in flight without the default system
\* message the gateway puts in front of it when the history is empty.
WindowWithoutSeed ==
    IF call.before.history = <<>> THEN Tail(call.cur_messages) ELSE call.cur_messages

\* C14: while openai.ChatCompletion.create runs for a call with
\* append_history set, the history equals the untrimmed window without the
\* default system message.
C14_HistoryIsWindowWithoutSeed ==
    (pc = "create" /\ call.input.append_history) => history = WindowWithoutSeed

\* C15: complete sends the history as it is, or the default system message
\* alone when the history is empty, and stores nothing before the request;
\* it leaves the accumulator as it was from its start to its end, and when
\* it succeeds with append_history set the history gains the response and
\* nothing else, otherwise the history is not changed.
C15_CompleteSendsHistoryOnly ==
    [][/\ (pc = "idle" /\ pc' = "create" /\ call'.op = "complete") =>
            /\ call'.cur_messages = (IF history = <<>> THEN <<DefaultSeed>> ELSE history)
            /\ call'.messages = <<>>
            /\ history' = history
            /\ cur_role' = cur_role /\ cur_content' = cur_content
       /\ (pc = "create" /\ pc' = "idle" /\ call.op = "complete") =>
            /\ cur_role' = call.before.cur_role
            /\ cur_content' = call.before.cur_content
            /\ history' = call.before.history
                  \o (IF call.input.append_history /\ "returned" \in DOMAIN last'.create
                      THEN <<ResponseEntry(last'.returned)>>
                      ELSE <<>>)]_vars

C15_Witness ==
    /\ last.op = "_make_completion"
    /\ last.input.append_history
    /\ "returned" \in DOMAIN last.create
    /\ history = <<[role |-> "assistant", content |-> "ok"]>>
    /\ Pending(Self) = <<[role |-> "user", content |-> "a"]>>

\* C16: add_function puts the definition at the end of the registry, also
\* when the registry already holds it, and leaves the history and the
\* accumulator as they were; every other operation leaves the registry as
\* it was.
C16_RegistryAppendOnly ==
    [][IF pc = "idle" /\ last'.op = "add_function"
       THEN /\ functions' = Append(functions, FuncDict(last'.func_def))
            /\ Len(functions') = Len(functions) + 1
            /\ history' = history
            /\ cur_role' = cur_role /\ cur_content' = cur_content
       ELSE functions' = functions]_vars

C16_Witness ==
    /\ last.op = "add_function"
    /\ functions = <<[name |-> "f", description |-> "null"],
                     [name |-> "f", description |-> "null"]>>
    /\ history # <<>>
    /\ Pending(Self) # <<>>

\* C17: the untrimmed window of the call in flight is the history the call
\* found, or the default system message alone when that history was empty,
\* followed by the new messages in their order, each once, whether or not
\* the call stores them.
C17_WindowIsSeedThenNewMessages ==
    pc = "create" =>
        /\ call.cur_messages =
              (IF call.before.history = <<>> THEN <<DefaultSeed>> ELSE call.before.history)
                \o Dicts(call.messages)
        /\ Len(call.cur_messages) =
              (IF call.before.history = <<>> THEN 1 ELSE Len(call.before.history))
                + Len(call.messages)

C17_Witness ==
    /\ pc = "create"
    /\ call.input.append_history
    /\ call.before.history # <<>>
    /\ call.messages # <<>>
    /\ Len(history) > Len(call.before.history)
    /\ Len(call.cur_messages) = Len(call.before.history) + Len(call.messages)

\* The entries a call that stores its messages has put in the history by
\* the time the request is made.
Committed(c) ==
    IF c.input.append_history /\ c.messages # <<>>
    THEN Pending(c.before) \o Dicts(c.messages)
    ELSE <<>>

\* C18: when the external call fails, the history is what the call found
\* followed by what the call stored before the request, and the error
\* response is not stored; with append_history false the history, the
\* registry and the accumulator are what the call found.
C18_FailureKeepsCommitDropsError ==
    [][(pc = "create" /\ pc' = "idle" /\ "raised" \in DOMAIN last'.create) =>
         /\ history' = call.before.history \o Committed(call)
         /\ history' = history
         /\ functions' = call.before.functions
         /\ ~call.input.append_history =>
               cur_role' = call.before.cur_role /\ cur_content' = call.before.cur_content]_vars

C18_Witness ==
    /\ last.op = "_make_completion"
    /\ last.create = [raised |-> "timeout"]
    /\ last.input.append_history
    /\ history = <<[role |-> "user", content |-> "Hello Sam"]>>

NotStreamingShape(resp) ==
    /\ {"message", "finish_reason"} \subseteq DOMAIN resp
    /\ "delta" \notin DOMAIN resp

StreamingShape(resp) ==
    /\ "delta" \in DOMAIN resp
    /\ "message" \notin DOMAIN resp

\* C19: a gateway call that succeeds returns a streaming response, with a
\* delta, when use_streaming is set and a response with a message and a
\* finish_reason otherwise; a call whose request fails returns a message
\* with finish_reason "error" whatever use_streaming is.
C19_ReturnShape ==
    last.op = "_make_completion" =>
        IF "raised" \in DOMAIN last.create
        THEN NotStreamingShape(last.returned) /\ last.returned.finish_reason = "error"
        ELSE IF last.input.use_streaming
             THEN StreamingShape(last.returned)
             ELSE NotStreamingShape(last.returned)

C19_Witness ==
    /\ last.op = "_make_completion"
    /\ "raised" \in DOMAIN last.create
    /\ last.input.use_streaming
    /\ last.input.append_history
    /\ NotStreamingShape(last.returned)

====
